---- MODULE Spec2Model ----
(***************************************************************************)
(* Model of rllib/core/models/tf/primitives.py: the three Keras building   *)
(* blocks TfMLP, TfCNN and TfCNNTranspose.  Each constructor turns its     *)
(* keyword arguments into an ordered list of layer descriptors and hands   *)
(* it to tf.keras.Sequential; call() forwards a tensor through the result. *)
(* A layer is modelled by the record of the arguments the constructor      *)
(* passes to the Keras layer class; a tensor is modelled by its shape.     *)
(***************************************************************************)
EXTENDS Integers, Sequences, FiniteSets, TLC

VARIABLES cls, cfg, pc, layers, i, act, network, err, inputs, outputs

vars == <<cls, cfg, pc, layers, i, act, network, err, inputs, outputs>>

(* ------------------------------ bounds -------------------------------- *)

\* Longest hidden_layer_dims / filter-specifier list that is enumerated.
MaxLayers == 2

\* Largest input_dim / spatial input size that is enumerated.
MaxDim == 4

(* ----------------------------- vocabulary ----------------------------- *)

\* Python's None, as the value of an `activation=` argument.
None == "None"

\* Python's None, as the value of the Optional[int] argument output_dim
\* (real widths are positive, so a negative number is free to stand for it).
NoOutputDim == 0 - 1

\* No error raised so far.
NoError == "none"

\* The activation resolver of ray.rllib.models.utils (outside this file):
\* a recognized name resolves to an executable function, any other name
\* raises.  The table lists the names the model enumerates as recognized.
ActivationTable == [relu |-> "fn_relu", linear |-> "fn_linear"]

Raise == "ValueError"

get_activation_fn(name) ==
    IF name \in DOMAIN ActivationTable THEN ActivationTable[name] ELSE Raise

\* Activation names handed to the constructors: two recognized, one not.
ActivationNames == {"relu", "linear", "swoosh"}

(* -------------------------- layer descriptors ------------------------- *)

Input(shape) == [type |-> "Input", shape |-> shape]

Dense(units, activation, use_bias) ==
    [type |-> "Dense", units |-> units, activation |-> activation,
     use_bias |-> use_bias]

\* tf.keras.layers.LayerNormalization(epsilon=1e-5): default axis is -1.
LayerNormalization(axis, epsilon) ==
    [type |-> "LayerNormalization", axis |-> axis, epsilon |-> epsilon]

Activation(activation) == [type |-> "Activation", activation |-> activation]

Conv2D(filters, kernel_size, strides, padding, use_bias, activation) ==
    [type |-> "Conv2D", filters |-> filters, kernel_size |-> kernel_size,
     strides |-> strides, padding |-> padding, use_bias |-> use_bias,
     activation |-> activation]

Conv2DTranspose(filters, kernel_size, strides, padding, activation, use_bias) ==
    [type |-> "Conv2DTranspose", filters |-> filters,
     kernel_size |-> kernel_size, strides |-> strides, padding |-> padding,
     activation |-> activation, use_bias |-> use_bias]

\* The two epsilon / axis settings the file uses.
Eps == "1e-5"
LastAxis == <<0 - 1>>
AllAxes == <<0 - 3, 0 - 2, 0 - 1>>

\* self.network / self.cnn / self.cnn_transpose before it is assigned.
NoNetwork == [built |-> FALSE, input_shape |-> <<>>, layers |-> <<>>]

\* tf.keras.Sequential(layers): the leading Input only fixes the input
\* shape; the remaining entries are the pipeline, in list order.
Sequential(ls) ==
    [built |-> TRUE, input_shape |-> ls[1].shape, layers |-> Tail(ls)]

(* ------------------------------ TfMLP --------------------------------- *)

\* C4 mutant: the width check lets zero through.
MLPInputValid_NonNegative(c) == c.input_dim >= 0

\* C10 mutant: a guard that also demands at least one layer.
MLPInputValid_RequiresLayer(c) ==
    /\ c.input_dim > 0
    /\ (Len(c.hidden_layer_dims) > 0 \/ c.output_dim # NoOutputDim)

\* assert input_dim > 0
MLPInputValid(c) == c.input_dim > 0

\* C2 mutant: the activation is kept inline although LayerNorm follows.
MLPHiddenBlock_InlineAct(c, a, k) ==
    <<Dense(c.hidden_layer_dims[k], a, c.use_bias)>>
    \o (IF c.hidden_layer_use_layernorm
        THEN <<LayerNormalization(LastAxis, Eps), Activation(a)>>
        ELSE <<>>)

\* One pass of the hidden-layer loop, for the k-th width (1-based), with
\* `a` the resolved hidden activation: the layers the pass appends.
MLPHiddenBlock(c, a, k) ==
    <<Dense(c.hidden_layer_dims[k],
            IF ~c.hidden_layer_use_layernorm THEN a ELSE None,
            c.use_bias)>>
    \o (IF c.hidden_layer_use_layernorm
        THEN <<LayerNormalization(LastAxis, Eps), Activation(a)>>
        ELSE <<>>)

\* C3 mutant: the output activation name is passed on without resolving it.
MLPOutputBlock_Unresolved(c) ==
    IF c.output_dim # NoOutputDim
    THEN [raised |-> FALSE,
          layers |-> <<Dense(c.output_dim, c.output_activation, c.use_bias)>>]
    ELSE [raised |-> FALSE, layers |-> <<>>]

\* C6 mutant: the output layer is normalized like a hidden layer.
MLPOutputBlock_Normed(c) ==
    IF c.output_dim # NoOutputDim
    THEN IF get_activation_fn(c.output_activation) = Raise
         THEN [raised |-> TRUE, layers |-> <<>>]
         ELSE IF c.hidden_layer_use_layernorm
              THEN [raised |-> FALSE,
                    layers |-> <<Dense(c.output_dim, None, c.use_bias),
                                 LayerNormalization(LastAxis, Eps),
                                 Activation(get_activation_fn(c.output_activation))>>]
              ELSE [raised |-> FALSE,
                    layers |-> <<Dense(c.output_dim,
                                       get_activation_fn(c.output_activation),
                                       c.use_bias)>>]
    ELSE [raised |-> FALSE, layers |-> <<>>]

\* The optional output layer: nothing when output_dim is None; otherwise
\* the output activation is resolved (which may raise) and one Dense layer
\* is appended.
MLPOutputBlock(c) ==
    IF c.output_dim # NoOutputDim
    THEN IF get_activation_fn(c.output_activation) = Raise
         THEN [raised |-> TRUE, layers |-> <<>>]
         ELSE [raised |-> FALSE,
               layers |-> <<Dense(c.output_dim,
                                  get_activation_fn(c.output_activation),
                                  c.use_bias)>>]
    ELSE [raised |-> FALSE, layers |-> <<>>]

\* TfMLP.__init__ up to the loop: the assert, the Input placeholder and the
\* resolution of the hidden activation.
TfMLP_Begin ==
    /\ cls = "TfMLP"
    /\ pc = "start"
    /\ IF ~MLPInputValid(cfg)
       THEN /\ pc' = "failed"
            /\ err' = "AssertionError"
            /\ UNCHANGED <<layers, act>>
       ELSE IF get_activation_fn(cfg.hidden_layer_activation) = Raise
            THEN /\ pc' = "failed"
                 /\ err' = Raise
                 /\ layers' = <<Input(<<cfg.input_dim>>)>>
                 /\ UNCHANGED act
            ELSE /\ pc' = "loop"
                 /\ layers' = <<Input(<<cfg.input_dim>>)>>
                 /\ act' = get_activation_fn(cfg.hidden_layer_activation)
                 /\ UNCHANGED err
    /\ UNCHANGED <<cls, cfg, i, network, inputs, outputs>>

\* One iteration of `for i in range(len(hidden_layer_dims))`.
TfMLP_Hidden ==
    /\ cls = "TfMLP"
    /\ pc = "loop"
    /\ i < Len(cfg.hidden_layer_dims)
    /\ layers' = layers \o MLPHiddenBlock(cfg, act, i + 1)
    /\ i' = i + 1
    /\ UNCHANGED <<cls, cfg, pc, act, network, err, inputs, outputs>>

\* After the loop: the optional output layer, then Sequential(layers).
TfMLP_Finish ==
    /\ cls = "TfMLP"
    /\ pc = "loop"
    /\ i = Len(cfg.hidden_layer_dims)
    /\ LET ob == MLPOutputBlock(cfg) IN
       IF ob.raised
       THEN /\ pc' = "failed"
            /\ err' = Raise
            /\ UNCHANGED <<layers, network>>
       ELSE /\ pc' = "done"
            /\ layers' = layers \o ob.layers
            /\ network' = Sequential(layers \o ob.layers)
            /\ UNCHANGED err
    /\ UNCHANGED <<cls, cfg, i, act, inputs, outputs>>

(* ------------------------------ TfCNN --------------------------------- *)

\* assert len(input_dims) == 3  (TfCNN and TfCNNTranspose)
CNNInputValid(c) == Len(c.input_dims) = 3

\* C7 mutant: the activation stays inline although LayerNorm follows.
CNNLayerBlock_InlineAct(c, a, k) ==
    LET s == c.cnn_filter_specifiers[k] IN
    <<Conv2D(s[1], s[2], s[3], "same", c.use_bias, a)>>
    \o (IF c.cnn_use_layernorm
        THEN <<LayerNormalization(AllAxes, Eps), Activation(a)>>
        ELSE <<>>)

\* C8 mutant: the bias is dropped when LayerNorm follows.
CNNLayerBlock_NoBiasUnderNorm(c, a, k) ==
    LET s == c.cnn_filter_specifiers[k] IN
    <<Conv2D(s[1], s[2], s[3], "same",
             c.use_bias /\ ~c.cnn_use_layernorm,
             IF c.cnn_use_layernorm THEN None ELSE a)>>
    \o (IF c.cnn_use_layernorm
        THEN <<LayerNormalization(AllAxes, Eps), Activation(a)>>
        ELSE <<>>)

\* C9 mutant: Keras' default padding instead of "same".
CNNLayerBlock_ValidPadding(c, a, k) ==
    LET s == c.cnn_filter_specifiers[k] IN
    <<Conv2D(s[1], s[2], s[3], "valid", c.use_bias,
             IF c.cnn_use_layernorm THEN None ELSE a)>>
    \o (IF c.cnn_use_layernorm
        THEN <<LayerNormalization(AllAxes, Eps), Activation(a)>>
        ELSE <<>>)

\* One pass of `for num_filters, kernel_size, strides in
\* cnn_filter_specifiers`, for the k-th specifier (1-based).
CNNLayerBlock(c, a, k) ==
    LET s == c.cnn_filter_specifiers[k] IN
    <<Conv2D(s[1], s[2], s[3], "same", c.use_bias,
             IF c.cnn_use_layernorm THEN None ELSE a)>>
    \o (IF c.cnn_use_layernorm
        THEN <<LayerNormalization(AllAxes, Eps), Activation(a)>>
        ELSE <<>>)

\* TfCNN.__init__ up to the loop: the assert, the resolution of the
\* activation, the empty list and the Input placeholder.
TfCNN_Begin ==
    /\ cls = "TfCNN"
    /\ pc = "start"
    /\ IF ~CNNInputValid(cfg)
       THEN /\ pc' = "failed"
            /\ err' = "AssertionError"
            /\ UNCHANGED <<layers, act>>
       ELSE IF get_activation_fn(cfg.cnn_activation) = Raise
            THEN /\ pc' = "failed"
                 /\ err' = Raise
                 /\ UNCHANGED <<layers, act>>
            ELSE /\ pc' = "loop"
                 /\ act' = get_activation_fn(cfg.cnn_activation)
                 /\ layers' = <<Input(cfg.input_dims)>>
                 /\ UNCHANGED err
    /\ UNCHANGED <<cls, cfg, i, network, inputs, outputs>>

TfCNN_Layer ==
    /\ cls = "TfCNN"
    /\ pc = "loop"
    /\ i < Len(cfg.cnn_filter_specifiers)
    /\ layers' = layers \o CNNLayerBlock(cfg, act, i + 1)
    /\ i' = i + 1
    /\ UNCHANGED <<cls, cfg, pc, act, network, err, inputs, outputs>>

\* self.cnn = tf.keras.Sequential(layers)
TfCNN_Finish ==
    /\ cls = "TfCNN"
    /\ pc = "loop"
    /\ i = Len(cfg.cnn_filter_specifiers)
    /\ network' = Sequential(layers)
    /\ pc' = "done"
    /\ UNCHANGED <<cls, cfg, layers, i, act, err, inputs, outputs>>

(* -------------------------- TfCNNTranspose ---------------------------- *)

\* C1 mutant: the last layer is treated like every other layer.
CNNTransposeLayerBlock_NoFinalCase(c, a, k) ==
    LET s == c.cnn_transpose_filter_specifiers[k] IN
    <<Conv2DTranspose(s[1], s[2], s[3], "same",
                      IF c.cnn_transpose_use_layernorm THEN None ELSE a,
                      c.use_bias)>>
    \o (IF c.cnn_transpose_use_layernorm
        THEN <<LayerNormalization(AllAxes, Eps), Activation(a)>>
        ELSE <<>>)

\* C5 mutant: the last layer is not activated inline and has its bias, but
\* LayerNorm and the activation are still appended after it.
CNNTransposeLayerBlock_FinalNormed(c, a, k) ==
    LET s == c.cnn_transpose_filter_specifiers[k]
        is_final_layer == (k - 1) = Len(c.cnn_transpose_filter_specifiers) - 1
    IN
    <<Conv2DTranspose(s[1], s[2], s[3], "same",
                      IF c.cnn_transpose_use_layernorm \/ is_final_layer
                      THEN None ELSE a,
                      c.use_bias \/ is_final_layer)>>
    \o (IF c.cnn_transpose_use_layernorm
        THEN <<LayerNormalization(AllAxes, Eps), Activation(a)>>
        ELSE <<>>)

\* One pass of `for i, (num_filters, kernel_size, strides) in enumerate(
\* cnn_transpose_filter_specifiers)`, for the k-th specifier (1-based, so
\* the loop's own index is k - 1).
CNNTransposeLayerBlock(c, a, k) ==
    LET s == c.cnn_transpose_filter_specifiers[k]
        is_final_layer == (k - 1) = Len(c.cnn_transpose_filter_specifiers) - 1
    IN
    <<Conv2DTranspose(s[1], s[2], s[3], "same",
                      IF c.cnn_transpose_use_layernorm \/ is_final_layer
                      THEN None ELSE a,
                      c.use_bias \/ is_final_layer)>>
    \o (IF c.cnn_transpose_use_layernorm /\ ~is_final_layer
        THEN <<LayerNormalization(AllAxes, Eps), Activation(a)>>
        ELSE <<>>)

\* The whole loop of TfCNNTranspose.__init__ over the first k specifiers.
RECURSIVE CNNTransposeLoop(_, _, _)
CNNTransposeLoop(c, a, k) ==
    IF k = 0 THEN <<>>
    ELSE CNNTransposeLoop(c, a, k - 1) \o CNNTransposeLayerBlock(c, a, k)

TfCNNTranspose_Begin ==
    /\ cls = "TfCNNTranspose"
    /\ pc = "start"
    /\ IF ~CNNInputValid(cfg)
       THEN /\ pc' = "failed"
            /\ err' = "AssertionError"
            /\ UNCHANGED <<layers, act>>
       ELSE IF get_activation_fn(cfg.cnn_transpose_activation) = Raise
            THEN /\ pc' = "failed"
                 /\ err' = Raise
                 /\ UNCHANGED <<layers, act>>
            ELSE /\ pc' = "loop"
                 /\ act' = get_activation_fn(cfg.cnn_transpose_activation)
                 /\ layers' = <<Input(cfg.input_dims)>>
                 /\ UNCHANGED err
    /\ UNCHANGED <<cls, cfg, i, network, inputs, outputs>>

TfCNNTranspose_Layer ==
    /\ cls = "TfCNNTranspose"
    /\ pc = "loop"
    /\ i < Len(cfg.cnn_transpose_filter_specifiers)
    /\ layers' = layers \o CNNTransposeLayerBlock(cfg, act, i + 1)
    /\ i' = i + 1
    /\ UNCHANGED <<cls, cfg, pc, act, network, err, inputs, outputs>>

\* self.cnn_transpose = tf.keras.Sequential(layers)
TfCNNTranspose_Finish ==
    /\ cls = "TfCNNTranspose"
    /\ pc = "loop"
    /\ i = Len(cfg.cnn_transpose_filter_specifiers)
    /\ network' = Sequential(layers)
    /\ pc' = "done"
    /\ UNCHANGED <<cls, cfg, layers, i, act, err, inputs, outputs>>

(* --------------------------- forward pass ----------------------------- *)

\* Output length of one spatial axis of a Keras convolution.
ConvOutputLength(d, k, s, padding) ==
    IF padding = "same" THEN (d + s - 1) \div s
    ELSE IF d < k THEN 0 ELSE (d - k) \div s + 1

\* Output length of one spatial axis of a Keras transposed convolution.
DeconvOutputLength(d, k, s, padding) ==
    IF padding = "same" THEN d * s
    ELSE d * s + (IF k > s THEN k - s ELSE 0)

\* Shape of a layer's output for a batched input of shape sh.
LayerOutputShape(l, sh) ==
    IF l.type = "Dense"
    THEN [j \in 1..Len(sh) |-> IF j = Len(sh) THEN l.units ELSE sh[j]]
    ELSE IF l.type = "Conv2D"
    THEN <<sh[1],
           ConvOutputLength(sh[2], l.kernel_size, l.strides, l.padding),
           ConvOutputLength(sh[3], l.kernel_size, l.strides, l.padding),
           l.filters>>
    ELSE IF l.type = "Conv2DTranspose"
    THEN <<sh[1],
           DeconvOutputLength(sh[2], l.kernel_size, l.strides, l.padding),
           DeconvOutputLength(sh[3], l.kernel_size, l.strides, l.padding),
           l.filters>>
    ELSE sh

\* Sequential.__call__: the layers applied in order.
RECURSIVE ForwardShape(_, _)
ForwardShape(ls, sh) ==
    IF ls = <<>> THEN sh
    ELSE ForwardShape(Tail(ls), LayerOutputShape(Head(ls), sh))

\* Batch sizes fed to call().
BatchSizes == {1, 2}

\* TfMLP.call
TfMLP_call ==
    /\ cls = "TfMLP"
    /\ pc = "done"
    /\ \E n \in BatchSizes :
         /\ inputs' = <<n>> \o network.input_shape
         /\ outputs' = ForwardShape(network.layers, <<n>> \o network.input_shape)
    /\ pc' = "called"
    /\ UNCHANGED <<cls, cfg, layers, i, act, network, err>>

\* TfCNN.call
TfCNN_call ==
    /\ cls = "TfCNN"
    /\ pc = "done"
    /\ \E n \in BatchSizes :
         /\ inputs' = <<n>> \o network.input_shape
         /\ outputs' = ForwardShape(network.layers, <<n>> \o network.input_shape)
    /\ pc' = "called"
    /\ UNCHANGED <<cls, cfg, layers, i, act, network, err>>

\* TfCNNTranspose.call
TfCNNTranspose_call ==
    /\ cls = "TfCNNTranspose"
    /\ pc = "done"
    /\ \E n \in BatchSizes :
         /\ inputs' = <<n>> \o network.input_shape
         /\ outputs' = ForwardShape(network.layers, <<n>> \o network.input_shape)
    /\ pc' = "called"
    /\ UNCHANGED <<cls, cfg, layers, i, act, network, err>>

(* ------------------------- configurations ----------------------------- *)

\* All sequences over S of length at most n.
SeqsUpTo(S, n) == UNION {[1..m -> S] : m \in 0..n}

\* Hidden widths.
Widths == {8, 16}

\* [number of filters, kernel, stride] specifiers (square kernels/strides).
FilterSpecs == {<<4, 3, 1>>, <<8, 3, 2>>, <<4, 1, 2>>, <<8, 5, 1>>}

\* input_dims arguments: every 3D shape up to MaxDim with 3 channels, and
\* shapes of the wrong rank.
InputDimsArgs ==
    {<<w, h, 3>> : w \in 1..MaxDim, h \in 1..MaxDim}
    \cup {<<>>, <<MaxDim, MaxDim>>, <<MaxDim, MaxDim, 3, 1>>}

MLPConfigs ==
    [input_dim : (0 - 1)..MaxDim,
     hidden_layer_dims : SeqsUpTo(Widths, MaxLayers),
     hidden_layer_use_layernorm : BOOLEAN,
     hidden_layer_activation : ActivationNames,
     output_dim : {NoOutputDim, 2},
     output_activation : ActivationNames,
     use_bias : BOOLEAN]

CNNConfigs ==
    [input_dims : InputDimsArgs,
     cnn_filter_specifiers : SeqsUpTo(FilterSpecs, MaxLayers),
     cnn_use_layernorm : BOOLEAN,
     cnn_activation : ActivationNames,
     use_bias : BOOLEAN]

CNNTransposeConfigs ==
    [input_dims : InputDimsArgs,
     cnn_transpose_filter_specifiers : SeqsUpTo(FilterSpecs, MaxLayers),
     cnn_transpose_activation : ActivationNames,
     cnn_transpose_use_layernorm : BOOLEAN,
     use_bias : BOOLEAN]

Init ==
    /\ cls \in {"TfMLP", "TfCNN", "TfCNNTranspose"}
    /\ cfg \in (IF cls = "TfMLP" THEN MLPConfigs
                ELSE IF cls = "TfCNN" THEN CNNConfigs
                ELSE CNNTransposeConfigs)
    /\ pc = "start"
    /\ layers = <<>>
    /\ i = 0
    /\ act = None
    /\ network = NoNetwork
    /\ err = NoError
    /\ inputs = <<>>
    /\ outputs = <<>>

Next ==
    \/ TfMLP_Begin
    \/ TfMLP_Hidden
    \/ TfMLP_Finish
    \/ TfMLP_call
    \/ TfCNN_Begin
    \/ TfCNN_Layer
    \/ TfCNN_Finish
    \/ TfCNN_call
    \/ TfCNNTranspose_Begin
    \/ TfCNNTranspose_Layer
    \/ TfCNNTranspose_Finish
    \/ TfCNNTranspose_call

Spec == Init /\ [][Next]_vars

(* ======================= properties of the blocks ===================== *)

\* Construction has completed (and call() may already have run).
Done == pc \in {"done", "called"}

\* The assembled pipeline: the layers behind the Input placeholder.
Pipeline == network.layers

\* Positions of the layers of type T in pipeline p, and the k-th of them.
PositionsOf(p, T) == {j \in 1..Len(p) : p[j].type = T}

KthOf(S, k) == CHOOSE j \in S : Cardinality({x \in S : x < j}) = k - 1

\* p[j] is followed by a normalization step over `axis` and then by an
\* explicit activation step with activation a.
FollowedByNormAct(p, j, axis, a) ==
    /\ j + 2 <= Len(p)
    /\ p[j + 1] = LayerNormalization(axis, Eps)
    /\ p[j + 2] = Activation(a)

\* p[j] is followed by no normalization or activation step: it is the last
\* element, or the next element is a layer of type T again.
FollowedByLayerOrEnd(p, j, T) == j = Len(p) \/ p[j + 1].type = T

\* C1: in a built TfCNNTranspose with n >= 1 specifiers, the i-th
\* Conv2DTranspose layer has activation None iff LayerNorm is on or it is
\* the final one (else the configured activation), has bias iff use_bias or
\* final, and is followed by LayerNorm + Activation iff LayerNorm is on and
\* it is not final; the final layer is the last element of the pipeline.
C1_FinalLayerRule ==
    (cls = "TfCNNTranspose" /\ Done
        /\ Len(cfg.cnn_transpose_filter_specifiers) >= 1) =>
    LET specs == cfg.cnn_transpose_filter_specifiers
        n == Len(specs)
        norm == cfg.cnn_transpose_use_layernorm
        a == get_activation_fn(cfg.cnn_transpose_activation)
        pos == PositionsOf(Pipeline, "Conv2DTranspose")
    IN
    /\ Cardinality(pos) = n
    /\ \A k \in 1..n :
         LET j == KthOf(pos, k)
             l == Pipeline[j]
             is_final == (k = n)
         IN
         /\ l.filters = specs[k][1]
         /\ l.kernel_size = specs[k][2]
         /\ l.strides = specs[k][3]
         /\ l.activation = (IF norm \/ is_final THEN None ELSE a)
         /\ l.use_bias = (cfg.use_bias \/ is_final)
         /\ FollowedByNormAct(Pipeline, j, AllAxes, a) <=> (norm /\ ~is_final)
         /\ ~(norm /\ ~is_final) =>
               FollowedByLayerOrEnd(Pipeline, j, "Conv2DTranspose")
    /\ KthOf(pos, n) = Len(Pipeline)
    /\ Pipeline[Len(Pipeline)].activation = None
    /\ Pipeline[Len(Pipeline)].use_bias

\* C1 witness: a built stack of two layers with LayerNorm on and use_bias
\* off, so that the final layer's overrides both take effect.
C1_Witness ==
    /\ cls = "TfCNNTranspose"
    /\ Done
    /\ Len(cfg.cnn_transpose_filter_specifiers) = 2
    /\ cfg.cnn_transpose_use_layernorm
    /\ ~cfg.use_bias
    /\ Len(Pipeline) = 4

\* C2: a built TfMLP is exactly: per hidden width w, in order, Dense(w)
\* with the hidden activation inline when LayerNorm is off, or Dense(w)
\* without activation, LayerNorm, Activation(hidden activation) when it is
\* on; then, iff output_dim is not None, one Dense(output_dim) with the
\* output activation inline as last element.  So with LayerNorm on there
\* are as many LayerNorm steps as hidden layers and none after the output.
C2_MLPPipelineShape ==
    (cls = "TfMLP" /\ Done) =>
    LET dims == cfg.hidden_layer_dims
        h == Len(dims)
        norm == cfg.hidden_layer_use_layernorm
        a == get_activation_fn(cfg.hidden_layer_activation)
        hasOut == cfg.output_dim # NoOutputDim
        width == IF norm THEN 3 ELSE 1
        p == Pipeline
    IN
    /\ cfg.input_dim > 0
    /\ Len(p) = width * h + (IF hasOut THEN 1 ELSE 0)
    /\ \A k \in 1..h :
         LET j == width * (k - 1) + 1 IN
         /\ p[j].type = "Dense"
         /\ p[j].units = dims[k]
         /\ p[j].activation = (IF norm THEN None ELSE a)
         /\ norm => /\ p[j + 1] = LayerNormalization(LastAxis, Eps)
                    /\ p[j + 2] = Activation(a)
    /\ hasOut =>
         /\ p[Len(p)].type = "Dense"
         /\ p[Len(p)].units = cfg.output_dim
         /\ p[Len(p)].activation = get_activation_fn(cfg.output_activation)
    /\ Cardinality(PositionsOf(p, "LayerNormalization")) = (IF norm THEN h ELSE 0)
    /\ Cardinality(PositionsOf(p, "Activation")) = (IF norm THEN h ELSE 0)

\* C2 witness: the spec's scenario shape, two normalized hidden layers and
\* an output layer whose activation differs from the hidden one.
C2_Witness ==
    /\ cls = "TfMLP"
    /\ Done
    /\ cfg.input_dim = 4
    /\ cfg.hidden_layer_dims = <<8, 8>>
    /\ cfg.hidden_layer_use_layernorm
    /\ cfg.hidden_layer_activation = "relu"
    /\ cfg.output_dim = 2
    /\ cfg.output_activation = "linear"
    /\ Len(Pipeline) = 7

\* The activation names the constructor of the configured class is given.
GivenActivationNames ==
    IF cls = "TfMLP"
    THEN {cfg.hidden_layer_activation, cfg.output_activation}
    ELSE IF cls = "TfCNN" THEN {cfg.cnn_activation}
    ELSE {cfg.cnn_transpose_activation}

\* The activation names the constructor resolves: TfMLP resolves
\* output_activation only when output_dim is not None.
ResolvedActivationNames ==
    IF cls = "TfMLP"
    THEN {cfg.hidden_layer_activation}
         \cup (IF cfg.output_dim # NoOutputDim
               THEN {cfg.output_activation} ELSE {})
    ELSE GivenActivationNames

Unrecognized(names) == \E nm \in names : get_activation_fn(nm) = Raise

\* C3 as stated: whenever any activation argument is unrecognized,
\* construction never completes and no pipeline is produced.
C3_AnyUnrecognizedNameFails ==
    Unrecognized(GivenActivationNames) => (~Done /\ ~network.built)

\* C3 amended: whenever an activation argument that the constructor
\* resolves is unrecognized (every activation argument, except TfMLP's
\* output_activation when output_dim is None), construction never completes
\* and no pipeline is produced; an unrecognized hidden / conv activation
\* stops construction before the first layer loop.
C3_ResolvedUnrecognizedNameFails ==
    /\ Unrecognized(ResolvedActivationNames) =>
         /\ ~Done
         /\ ~network.built
         /\ pc = "failed" => err \in {Raise, "AssertionError"}
    /\ (cls = "TfMLP" /\ get_activation_fn(cfg.hidden_layer_activation) = Raise)
         => pc \in {"start", "failed"}
    /\ (cls # "TfMLP" /\ Unrecognized(GivenActivationNames))
         => pc \in {"start", "failed"}
    /\ err = Raise => (pc = "failed" /\ Unrecognized(ResolvedActivationNames))

\* C3 witness: a TfMLP whose hidden layers were built and whose output
\* activation then failed to resolve.
C3_Witness ==
    /\ cls = "TfMLP"
    /\ pc = "failed"
    /\ err = Raise
    /\ get_activation_fn(cfg.hidden_layer_activation) # Raise
    /\ get_activation_fn(cfg.output_activation) = Raise
    /\ cfg.output_dim # NoOutputDim
    /\ Len(cfg.hidden_layer_dims) = 2
    /\ i = 2
    /\ ~network.built

\* The dimension argument is invalid: input_dim <= 0 for TfMLP, an
\* input_dims of length other than 3 for the two conv blocks.
BadDimensions ==
    IF cls = "TfMLP" THEN cfg.input_dim <= 0 ELSE Len(cfg.input_dims) # 3

\* C4: with an invalid dimension argument construction aborts with an
\* error before any layer is appended and without a pipeline; with a valid
\* one the dimension check never rejects, and with recognized activations
\* construction does not fail at all.
C4_DimensionValidation ==
    /\ BadDimensions =>
         /\ pc \in {"start", "failed"}
         /\ layers = <<>>
         /\ ~network.built
         /\ pc = "failed" => err = "AssertionError"
    /\ ~BadDimensions =>
         /\ err # "AssertionError"
         /\ ~Unrecognized(GivenActivationNames) => pc # "failed"

\* C4 witness: a TfCNNTranspose rejected for an input_dims of length 2.
C4_Witness ==
    /\ cls = "TfCNNTranspose"
    /\ Len(cfg.input_dims) = 2
    /\ pc = "failed"
    /\ err = "AssertionError"

\* C5: for a built TfCNNTranspose with at least one specifier, the final
\* layer is the one the same configuration with cnn_transpose_use_layernorm
\* toggled yields: same filters, kernel, stride, padding, no activation,
\* bias on, and last in both pipelines; the two pipelines hold the same
\* number of transposed convolutions.
C5_FinalLayerNormInvariant ==
    (cls = "TfCNNTranspose" /\ Done
        /\ Len(cfg.cnn_transpose_filter_specifiers) >= 1) =>
    LET n == Len(cfg.cnn_transpose_filter_specifiers)
        s == cfg.cnn_transpose_filter_specifiers[n]
        toggled == [cfg EXCEPT !.cnn_transpose_use_layernorm = ~@]
        other == CNNTransposeLoop(toggled, act, n)
        last == Pipeline[Len(Pipeline)]
    IN
    /\ last = other[Len(other)]
    /\ last = Conv2DTranspose(s[1], s[2], s[3], "same", None, TRUE)
    /\ Cardinality(PositionsOf(other, "Conv2DTranspose"))
         = Cardinality(PositionsOf(Pipeline, "Conv2DTranspose"))

\* C5 witness: a built two-layer stack with LayerNorm on and use_bias off,
\* whose toggled twin differs in the first layer.
C5_Witness ==
    /\ cls = "TfCNNTranspose"
    /\ pc = "done"
    /\ Len(cfg.cnn_transpose_filter_specifiers) = 2
    /\ cfg.cnn_transpose_use_layernorm
    /\ ~cfg.use_bias
    /\ cfg.cnn_transpose_activation = "relu"
    /\ Pipeline # CNNTransposeLoop(
           [cfg EXCEPT !.cnn_transpose_use_layernorm = FALSE], act, 2)

\* C6: a built TfMLP with no hidden widths and an output_dim holds exactly
\* one layer: Dense(output_dim) with the output activation inline; no
\* LayerNorm and no explicit activation step.
C6_OutputOnlyMLP ==
    (cls = "TfMLP" /\ Done /\ cfg.hidden_layer_dims = <<>>
        /\ cfg.output_dim # NoOutputDim) =>
    /\ Len(Pipeline) = 1
    /\ Pipeline[1].type = "Dense"
    /\ Pipeline[1].units = cfg.output_dim
    /\ Pipeline[1].activation = get_activation_fn(cfg.output_activation)
    /\ PositionsOf(Pipeline, "LayerNormalization") = {}
    /\ PositionsOf(Pipeline, "Activation") = {}

\* C6 witness: such a network built with hidden LayerNorm requested.
C6_Witness ==
    /\ cls = "TfMLP"
    /\ Done
    /\ cfg.hidden_layer_dims = <<>>
    /\ cfg.output_dim = 2
    /\ cfg.hidden_layer_use_layernorm
    /\ Len(Pipeline) = 1

\* C7: in a built TfCNN every convolution, the last included, has padding
\* "same" and takes its filters, kernel and stride from the specifier at
\* its position; with LayerNorm off it carries the activation inline and
\* the pipeline has n elements, with LayerNorm on it has no activation and
\* is followed by LayerNorm over the three trailing axes (epsilon 1e-5) and
\* an Activation step, 3n elements in all.  No other layer kind appears.
C7_CNNPipelineShape ==
    (cls = "TfCNN" /\ Done) =>
    LET specs == cfg.cnn_filter_specifiers
        n == Len(specs)
        norm == cfg.cnn_use_layernorm
        a == get_activation_fn(cfg.cnn_activation)
        width == IF norm THEN 3 ELSE 1
        p == Pipeline
    IN
    /\ Len(p) = width * n
    /\ \A k \in 1..n :
         LET j == width * (k - 1) + 1 IN
         /\ p[j].type = "Conv2D"
         /\ p[j].filters = specs[k][1]
         /\ p[j].kernel_size = specs[k][2]
         /\ p[j].strides = specs[k][3]
         /\ p[j].padding = "same"
         /\ p[j].activation = (IF norm THEN None ELSE a)
         /\ norm => /\ p[j + 1] = LayerNormalization(AllAxes, Eps)
                    /\ p[j + 2] = Activation(a)
    /\ \A j \in 1..Len(p) :
         p[j].type \in {"Conv2D", "LayerNormalization", "Activation"}

\* C7 witness: a built two-layer TfCNN with LayerNorm on (six elements).
C7_Witness ==
    /\ cls = "TfCNN"
    /\ Done
    /\ Len(cfg.cnn_filter_specifiers) = 2
    /\ cfg.cnn_use_layernorm
    /\ Len(Pipeline) = 6

\* C8: at every point of building a TfMLP or a TfCNN, every Dense /
\* Conv2D layer appended so far has use_bias equal to the use_bias
\* argument, whatever its position, the LayerNorm flag or the activation.
C8_UniformBias ==
    (cls \in {"TfMLP", "TfCNN"}) =>
    \A j \in 1..Len(layers) :
        layers[j].type \in {"Dense", "Conv2D"} =>
            layers[j].use_bias = cfg.use_bias

\* C8 witness: a built TfCNN of two layers with LayerNorm on and bias on.
C8_Witness ==
    /\ cls = "TfCNN"
    /\ Done
    /\ Len(cfg.cnn_filter_specifiers) = 2
    /\ cfg.cnn_use_layernorm
    /\ cfg.use_bias
    /\ layers[Len(layers) - 2].type = "Conv2D"

\* ceil(d / s)
CeilDiv(d, s) == (d + s - 1) \div s

\* A spatial size after the first k specifiers under "same" padding.
RECURSIVE SameSize(_, _, _)
SameSize(d, specs, k) ==
    IF k = 0 THEN d ELSE CeilDiv(SameSize(d, specs, k - 1), specs[k][3])

\* C9: forwarding a batch through a built TfCNN maps each spatial size d
\* to ceil(d / stride) per layer, in order, keeps the batch size, and
\* yields the last specifier's filter count as channel count; with all
\* strides 1 the spatial sizes are unchanged.
C9_CNNShapeLaw ==
    (cls = "TfCNN" /\ pc = "called") =>
    LET specs == cfg.cnn_filter_specifiers
        n == Len(specs)
    IN
    /\ inputs = <<inputs[1]>> \o cfg.input_dims
    /\ Len(outputs) = 4
    /\ outputs[1] = inputs[1]
    /\ outputs[2] = SameSize(inputs[2], specs, n)
    /\ outputs[3] = SameSize(inputs[3], specs, n)
    /\ outputs[4] = (IF n >= 1 THEN specs[n][1] ELSE inputs[4])
    /\ (\A k \in 1..n : specs[k][3] = 1) =>
         (outputs[2] = inputs[2] /\ outputs[3] = inputs[3])

\* C9 witness: a stride-1 layer followed by a stride-2 layer on a 3 x 4
\* input, as in the spec's scenario: (N, 3, 4, 3) -> (N, 2, 2, 8).
C9_Witness ==
    /\ cls = "TfCNN"
    /\ pc = "called"
    /\ cfg.cnn_filter_specifiers = <<<<4, 3, 1>>, <<8, 3, 2>>>>
    /\ cfg.input_dims = <<3, 4, 3>>
    /\ outputs = <<inputs[1], 2, 2, 8>>

\* A TfMLP configuration with a valid width, no hidden layer, no output
\* layer and a recognized hidden activation.
NoLayerMLP ==
    /\ cls = "TfMLP"
    /\ cfg.input_dim > 0
    /\ cfg.hidden_layer_dims = <<>>
    /\ cfg.output_dim = NoOutputDim
    /\ get_activation_fn(cfg.hidden_layer_activation) # Raise

\* C10: a TfMLP with input_dim > 0, no hidden widths and output_dim None
\* is not rejected: no error is raised, and once built its pipeline is
\* empty behind the Input placeholder, so call() returns a tensor of the
\* input's shape, of width input_dim.
C10_NoLayerMLPAccepted ==
    NoLayerMLP =>
    /\ pc # "failed"
    /\ err = NoError
    /\ pc \in {"start", "loop"} => ENABLED Next
    /\ Done =>
         /\ network.built
         /\ Pipeline = <<>>
         /\ layers = <<Input(<<cfg.input_dim>>)>>
    /\ pc = "called" =>
         /\ outputs = inputs
         /\ outputs[Len(outputs)] = cfg.input_dim

\* C10 witness: such a TfMLP built and called.
C10_Witness ==
    /\ NoLayerMLP
    /\ pc = "called"
    /\ network.built
    /\ cfg.hidden_layer_use_layernorm

====
